---------------------------- MODULE Spec2Model ----------------------------
(***************************************************************************)
(* The integrity-check engine of the audio tool: the fingerprint store     *)
(* (tables passed_files and failed_files), the global lock file, the       *)
(* decision engine determine_action, the work unit process_file, the       *)
(* verifier check_single_file, the two modes of check_integrity (verbose:  *)
(* one transaction per file; parallel: worker pool and batch flushes),     *)
(* the sweep cleanup_database and dbcheck's update_codec_information.      *)
(*                                                                         *)
(* A process is a pair <<run, who>>: <<r, "main">> is the process that     *)
(* runs check_integrity for run r, <<r, p>> is the pool worker that runs   *)
(* process_file for path p in a parallel run.  In verbose mode             *)
(* process_file runs in the main process.                                  *)
(***************************************************************************)
EXTENDS Integers, FiniteSets, Sequences, TLC

\* ------------------------------------------------------------ bounds
\* The files of the collection and the invocations of check_integrity.
Paths == {"a.flac", "b.flac"}
Runs == {"run1", "run2"}
\* The order the invocations are started in.
RunOrder == <<"run1", "run2">>
\* File bytes: "good" decodes cleanly, "bad" makes the decoder report errors.
Contents == {"good", "bad"}
\* Modification times are 1..MaxMtime.
MaxMtime == 2
\* How many times the environment touches, rewrites or deletes a file.
MaxEnv == 1
\* max_workers of the pool.
NumWorkers == 2

\* ------------------------------------------------- program constants
\* check_integrity flushes when processed_count % 100 == 0.  The model's
\* runs hold at most two files, so the period is scaled to 2: a run over
\* two files makes one periodic flush, a run over one file a final flush.
FlushEvery == 2
\* process_file returns 5 values, except the 4 of its 'ERROR' branch.
ResultArity == 5
ErrorResultArity == 4
\* update_info = (file_path, current_hash, current_mtime, status, codec).
UpdateInfoArity == 5
\* "for file_path, _, _, _ in db_updates_passed" unpacks 4 values.
FlushUnpackArity == 4
\* "action, status, message, file_path, extra = result" unpacks 5 values.
CollectUnpackArity == 5

\* "UPDATE t SET mtime = ? WHERE file_path = ?": file_path is the statement's
\* second parameter.
UpdateMtimeWhereParam == 2
\* Verbose mode binds (extra, file_path): file_path is the second value.
VerboseMtimePathIndex == 2
\* Parallel mode buffers (file_path, current_mtime): file_path is the first.
BufferedMtimePathIndex == 1

Main == "main"
NoMtime == 0

VARIABLES
    disk,       \* disk[p] = [exists, mtime, content]: the file system
    db,         \* the committed store: [passed_files, failed_files], each a
                \* function from the paths that have a row to the row
    conn,       \* conn[r]: the uncommitted view of run r's open transaction
    lock,       \* the set of processes that hold flock(LOCK_FILE, LOCK_EX)
    clock,      \* datetime.now(), counted in invocations started
    env_left,   \* environment steps left: file changes and store errors
    run,        \* run[r]: the locals of check_integrity in run r
    task        \* task[r][p]: the locals of process_file(db_path, p, force)

vars == <<disk, db, conn, lock, clock, env_left, run, task>>

\* ------------------------------------------------------------ tables
EmptyTable == [q \in {} |-> 0]
EmptyDb == [passed_files |-> EmptyTable, failed_files |-> EmptyTable]

Has(table, p) == p \in DOMAIN table

\* DELETE FROM table WHERE file_path = p
SqlDelete(table, p) == [q \in (DOMAIN table) \ {p} |-> table[q]]

\* INSERT OR REPLACE INTO table (file_path, ...) VALUES (p, ...)
SqlInsertOrReplace(table, p, row) ==
    [q \in (DOMAIN table) \cup {p} |-> IF q = p THEN row ELSE table[q]]

\* UPDATE table SET mtime = m WHERE file_path = p
SqlUpdateMtime(table, p, m) ==
    [q \in DOMAIN table |-> IF q = p THEN [table[q] EXCEPT !.mtime = m] ELSE table[q]]

\* UPDATE table SET codec = c, codec_type = t WHERE file_path = p
SqlUpdateCodec(table, p, c, t) ==
    [q \in DOMAIN table |->
        IF q = p THEN [table[q] EXCEPT !.codec = c, !.codec_type = t] ELSE table[q]]

\* The row check_integrity inserts: (file_path, file_hash, mtime, status,
\* last_checked, codec); db_init's tables have no codec_type column until
\* dbcheck adds it, and an insert leaves it NULL.
Row(u, now) ==
    [file_hash |-> u.file_hash, mtime |-> u.mtime, status |-> u.status,
     last_checked |-> now, codec |-> u.codec, codec_type |-> "NULL"]

\* ----------------------------------------------------- the lock file
\* A lock that never blocks (LOCK_SH, or LOCK_NB with the error ignored).
acquire_lock_never_blocks == TRUE

\* fcntl.flock(lock_fd, LOCK_EX) blocks until no other open file
\* description holds the lock.
acquire_lock_enabled == lock = {}

acquire_lock(proc) == lock \cup {proc}

release_lock(proc) == lock \ {proc}

\* ------------------------------------------------ hashing and probing
\* The digest of the file's bytes.
calculate_file_hash(content) == IF content = "good" THEN "h_good" ELSE "h_bad"

\* ffprobe's codec_name through normalize_codec; "unknown" when the probe
\* fails, prints nothing or the file is gone.
get_codec(f) == IF f.exists THEN {"flac", "unknown"} ELSE {"unknown"}

\* normalize_codec(codec)[1]
codec_type_of(c) == IF c = "flac" THEN "lossless" ELSE "unknown"

\* What ffmpeg -v error writes on its error channel for a file in state
\* f: nothing for bytes that decode cleanly, diagnostics otherwise.
ffmpeg_stderr(f) ==
    IF f.exists /\ f.content = "good" THEN {""}
    ELSE IF f.exists THEN {" invalid data\n", "\n"}
    ELSE {"No such file or directory\n"}

\* str.strip()
strip(text) ==
    CASE text = " invalid data\n" -> "invalid data"
      [] text = "No such file or directory\n" -> "No such file or directory"
      [] text = "\n" -> ""
      [] OTHER -> text

\* What became of a probe that returned label c: get_codec returns
\* "unknown" when ffprobe raised or timed out or printed nothing.
probe_of(c) == IF c = "unknown" THEN "failed" ELSE "ok"

\* A verifier that classifies by whether the tool completed, whatever it
\* wrote on its error channel.
check_single_file_ignores_stderr(f) ==
    {[event |-> "completed", stderr |-> e, status |-> "PASSED", message |-> "",
      codec |-> c, probe |-> probe_of(c)] : e \in ffmpeg_stderr(f), c \in get_codec(f)}
      \cup {[event |-> "timeout", stderr |-> "", status |-> "FAILED",
             message |-> "FFmpeg timed out", codec |-> "unknown", probe |-> "none"]}

\* The results check_single_file can return for a file in state f:
\* (status, message, codec), with what happened in subprocess.run (event:
\* it completed, it timed out, another exception), the error output, and
\* what became of the probe (probe): get_codec is called at line 95 only,
\* after ffmpeg has completed; the except clauses return "unknown" without
\* calling it.
check_single_file(f) ==
    LET completed ==
            {[event |-> "completed", stderr |-> e,
              status |-> IF e = "" THEN "PASSED" ELSE "FAILED",
              message |-> IF e = "" THEN "" ELSE strip(e),
              codec |-> c, probe |-> probe_of(c)] :
                 e \in ffmpeg_stderr(f), c \in get_codec(f)}
        timed_out ==
            {[event |-> "timeout", stderr |-> "", status |-> "FAILED",
              message |-> "FFmpeg timed out", codec |-> "unknown", probe |-> "none"]}
        other_exception ==
            {[event |-> "exception", stderr |-> "", status |-> "FAILED",
              message |-> "str(e)", codec |-> "unknown", probe |-> "none"]}
    IN completed \cup timed_out \cup other_exception

\* --------------------------------------------------- determine_action
Decision(a, s, h, m) ==
    [action |-> a, stored_status |-> s, current_hash |-> h, current_mtime |-> m]

\* A forced branch that still takes the fast path: a file whose record has
\* the file's mtime is answered from the store.
determine_action_forced_fast_path(f) ==
    IF ~f.exists THEN [action |-> "FILE_NOT_FOUND", stored_status |-> "None",
                       current_hash |-> "None", current_mtime |-> NoMtime]
    ELSE IF \E p \in Paths :
                /\ disk[p] = f
                /\ \E t \in {db.passed_files, db.failed_files} :
                       p \in DOMAIN t /\ t[p].mtime = f.mtime
         THEN [action |-> "USE_CACHED", stored_status |-> "PASSED",
               current_hash |-> "None", current_mtime |-> f.mtime]
         ELSE [action |-> "RUN_FFMPEG", stored_status |-> "None",
               current_hash |-> IF f.content = "good" THEN "h_good" ELSE "h_bad",
               current_mtime |-> f.mtime]

\* The forced branch: no store read.
determine_action_forced(f) ==
    IF f.exists
    THEN Decision("RUN_FFMPEG", "None", calculate_file_hash(f.content), f.mtime)
    ELSE Decision("FILE_NOT_FOUND", "None", "None", NoMtime)

\* The row the loop over ['passed_files', 'failed_files'] finds first.
Lookup(store, p) ==
    IF Has(store.passed_files, p) THEN <<store.passed_files[p]>>
    ELSE IF Has(store.failed_files, p) THEN <<store.failed_files[p]>>
    ELSE <<>>

\* A locked section that never compares fingerprints: a tracked file whose
\* mtime differs is refreshed.
determine_action_locked_no_hash_check(store, p, current_mtime, f) ==
    LET found == Lookup(store, p)
        hashed(a, s) ==
            IF f.exists
            THEN Decision(a, s, calculate_file_hash(f.content), current_mtime)
            ELSE Decision("RAISED", "None", "None", current_mtime)
    IN  IF Len(found) > 0
        THEN IF found[1].mtime = current_mtime
             THEN Decision("USE_CACHED", found[1].status, "None", current_mtime)
             ELSE hashed("UPDATE_MTIME", found[1].status)
        ELSE hashed("RUN_FFMPEG", "None")

\* A locked section that computes the fingerprint before it looks at the
\* record: every decision carries it, the cached one too.
determine_action_locked_hash_first(store, p, current_mtime, f) ==
    LET found == Lookup(store, p)
        hashed(a, s) ==
            IF f.exists
            THEN Decision(a, s, calculate_file_hash(f.content), current_mtime)
            ELSE Decision("RAISED", "None", "None", current_mtime)
    IN  IF Len(found) > 0
        THEN IF found[1].mtime = current_mtime
             THEN hashed("USE_CACHED", found[1].status)
             ELSE IF f.exists /\ found[1].file_hash = calculate_file_hash(f.content)
                  THEN hashed("UPDATE_MTIME", found[1].status)
                  ELSE hashed("RUN_FFMPEG", "None")
        ELSE hashed("RUN_FFMPEG", "None")

\* A locked section whose UPDATE_MTIME carries the record's mtime, not the
\* one read from the file.
determine_action_locked_stored_mtime(store, p, current_mtime, f) ==
    LET found == Lookup(store, p)
        hashed(a, s) ==
            IF f.exists
            THEN Decision(a, s, calculate_file_hash(f.content), current_mtime)
            ELSE Decision("RAISED", "None", "None", current_mtime)
    IN  IF Len(found) > 0
        THEN IF found[1].mtime = current_mtime
             THEN Decision("USE_CACHED", found[1].status, "None", current_mtime)
             ELSE IF f.exists /\ found[1].file_hash = calculate_file_hash(f.content)
                  THEN Decision("UPDATE_MTIME", found[1].status,
                                calculate_file_hash(f.content), found[1].mtime)
                  ELSE hashed("RUN_FFMPEG", "None")
        ELSE hashed("RUN_FFMPEG", "None")

\* A locked section that returns RUN_FFMPEG for an untracked file without
\* computing its fingerprint.
determine_action_locked_untracked_no_hash(store, p, current_mtime, f) ==
    LET found == Lookup(store, p)
        hashed(a, s) ==
            IF f.exists
            THEN Decision(a, s, calculate_file_hash(f.content), current_mtime)
            ELSE Decision("RAISED", "None", "None", current_mtime)
    IN  IF Len(found) > 0
        THEN IF found[1].mtime = current_mtime
             THEN Decision("USE_CACHED", found[1].status, "None", current_mtime)
             ELSE IF f.exists /\ found[1].file_hash = calculate_file_hash(f.content)
                  THEN hashed("UPDATE_MTIME", found[1].status)
                  ELSE hashed("RUN_FFMPEG", "None")
        ELSE Decision("RUN_FFMPEG", "None", "None", current_mtime)

\* The locked section of determine_action, for a file whose mtime was read
\* as current_mtime before the lock was taken.  f is the file now:
\* calculate_file_hash raises FileNotFoundError when it is gone.
determine_action_locked(store, p, current_mtime, f) ==
    LET found == Lookup(store, p)
        hashed(a, s) ==
            IF f.exists
            THEN Decision(a, s, calculate_file_hash(f.content), current_mtime)
            ELSE Decision("RAISED", "None", "None", current_mtime)
    IN  IF Len(found) > 0
        THEN IF found[1].mtime = current_mtime
             THEN Decision("USE_CACHED", found[1].status, "None", current_mtime)
             ELSE IF f.exists /\ found[1].file_hash = calculate_file_hash(f.content)
                  THEN hashed("UPDATE_MTIME", found[1].status)
                  ELSE hashed("RUN_FFMPEG", "None")
        ELSE hashed("RUN_FFMPEG", "None")

\* ------------------------------------------------------- initial state
IdleTask ==
    [pc |-> "none", action |-> "None", stored_status |-> "None",
     current_hash |-> "None", current_mtime |-> NoMtime, status |-> "None",
     codec |-> "None", arity |-> 0, exc |-> "none", verifier_calls |-> 0,
     tracked |-> FALSE]

IdleRun ==
    [pc |-> "idle", verbose |-> FALSE, force_recheck |-> FALSE, audio_files |-> {},
     item |-> "None", job |-> "none", err |-> "none", processed_count |-> 0,
     mtime_updates_passed |-> {}, mtime_updates_failed |-> {},
     db_updates_passed |-> {}, db_updates_failed |-> {},
     changed |-> {}, after |-> {}]

ClosedConn == [open |-> FALSE, store |-> EmptyDb]

\* initialize_database has created both tables, empty; both files exist.
Init ==
    /\ disk = [p \in Paths |->
                 [exists |-> TRUE, mtime |-> 1,
                  content |-> IF p = "a.flac" THEN "good" ELSE "bad"]]
    /\ db = EmptyDb
    /\ conn = [r \in Runs |-> ClosedConn]
    /\ lock = {}
    /\ clock = 0
    /\ env_left = MaxEnv
    /\ run = [r \in Runs |-> IdleRun]
    /\ task = [r \in Runs |-> [p \in Paths |-> IdleTask]]

\* -------------------------------------------------------- environment
\* Every started invocation notes the paths that changed under it.
NoteChanged(p) ==
    [r \in Runs |->
        IF run[r].pc = "idle" THEN run[r]
        ELSE [run[r] EXCEPT !.changed = @ \cup {p}]]

\* os.utime / a re-save: the mtime changes, the bytes do not.
Touch(p) ==
    /\ env_left > 0
    /\ disk[p].exists
    /\ \E m \in (1..MaxMtime) \ {disk[p].mtime} :
          disk' = [disk EXCEPT ![p].mtime = m]
    /\ env_left' = env_left - 1
    /\ run' = NoteChanged(p)
    /\ UNCHANGED <<db, conn, lock, clock, task>>

\* The bytes change; the mtime is whatever the writer leaves.
Modify(p) ==
    /\ env_left > 0
    /\ disk[p].exists
    /\ \E c \in Contents \ {disk[p].content}, m \in 1..MaxMtime :
          disk' = [disk EXCEPT ![p].content = c, ![p].mtime = m]
    /\ env_left' = env_left - 1
    /\ run' = NoteChanged(p)
    /\ UNCHANGED <<db, conn, lock, clock, task>>

\* The file is removed and does not come back.
Delete(p) ==
    /\ env_left > 0
    /\ disk[p].exists
    /\ disk' = [disk EXCEPT ![p].exists = FALSE]
    /\ env_left' = env_left - 1
    /\ run' = NoteChanged(p)
    /\ UNCHANGED <<db, conn, lock, clock, task>>

\* ------------------------------------------------- check_integrity: start
\* An invocation is over: it returned or its exception left it.
Ended(r) == run[r].pc \in {"done", "aborted"}

\* The process of an ended invocation has exited and its locals are gone:
\* what is kept of it is how it ended, over which files, and which of
\* them changed since it started.
Exited(rn) ==
    [IdleRun EXCEPT !.pc = rn.pc, !.err = rn.err, !.audio_files = rn.audio_files,
                    !.changed = rn.changed, !.after = rn.after]

Proc(r, p) == <<r, IF run[r].verbose THEN Main ELSE p>>

MainProc(r) == <<r, Main>>

\* args.path is one audio file or a directory (get_audio_files).
Discovered == {{p} : p \in {q \in Paths : disk[q].exists}}
                 \cup {{q \in Paths : disk[q].exists}}

\* check_integrity up to the loop: the arguments, the file list and, in
\* parallel mode, executor.submit for every file.  An empty directory
\* returns at once ("No audio files found").
StartRun(r, v, f) ==
    /\ run[r].pc = "idle"
    /\ \A i, j \in 1..Len(RunOrder) :
          i < j /\ RunOrder[j] = r => run[RunOrder[i]].pc # "idle"
    /\ \E files \in Discovered :
          /\ run' = [q \in Runs |->
                        IF q = r
                        THEN [IdleRun EXCEPT !.pc = IF files = {} THEN "done" ELSE "loop",
                                             !.verbose = v, !.force_recheck = f,
                                             !.audio_files = files,
                                             !.after = {x \in Runs : Ended(x)}]
                        ELSE IF Ended(q) THEN Exited(run[q]) ELSE run[q]]
          /\ task' = [q \in Runs |->
                        IF q = r
                        THEN [p \in Paths |->
                                 IF p \in files THEN [IdleTask EXCEPT !.pc = "submitted"]
                                 ELSE IdleTask]
                        ELSE IF Ended(q) THEN [p \in Paths |-> IdleTask] ELSE task[q]]
    /\ clock' = clock + 1
    /\ UNCHANGED <<disk, db, conn, lock, env_left>>

\* ------------------------------------------------------- process_file
Running(r) == {p \in Paths : task[r][p].pc \in {"stat_done", "locked", "decided"}}

\* What process_file returns for a decision that needs no verifier.
Returned(t, d) ==
    [t EXCEPT !.pc = "returned", !.action = d.action,
              !.stored_status = d.stored_status, !.current_hash = d.current_hash,
              !.current_mtime = d.current_mtime,
              !.status = IF d.action = "FILE_NOT_FOUND" THEN "Unknown action"
                         ELSE d.stored_status,
              !.arity = IF d.action = "FILE_NOT_FOUND" THEN ErrorResultArity
                        ELSE ResultArity]

Decided(t, d) ==
    [t EXCEPT !.pc = "decided", !.action = d.action,
              !.stored_status = d.stored_status, !.current_hash = d.current_hash,
              !.current_mtime = d.current_mtime]

\* process_file enters determine_action: the forced branch, or the stat
\* before the lock.  In verbose mode the main process takes the next file
\* of its loop; in parallel mode a free worker takes a submitted one.
Stat(r, p) ==
    /\ task[r][p].pc = "submitted"
    /\ IF run[r].verbose
       THEN /\ run[r].pc = "loop"
            /\ run' = [run EXCEPT ![r].pc = "process", ![r].item = p]
       ELSE /\ Cardinality(Running(r)) < NumWorkers
            /\ UNCHANGED run
    /\ LET t == task[r][p]
           f == disk[p]
           d == determine_action_forced(f)
       IN  task' = [task EXCEPT ![r][p] =
              IF run[r].force_recheck
              THEN IF d.action = "FILE_NOT_FOUND" THEN Returned(t, d) ELSE Decided(t, d)
              ELSE IF f.exists
                   THEN [t EXCEPT !.pc = "stat_done", !.current_mtime = f.mtime]
                   ELSE Returned(t, d)]
    /\ UNCHANGED <<disk, db, conn, lock, clock, env_left>>

\* determine_action that reads the store without taking the lock.
DecideAcquireNoLock(r, p) ==
    /\ task[r][p].pc = "stat_done"
    /\ task' = [task EXCEPT ![r][p].pc = "locked"]
    /\ UNCHANGED <<disk, db, conn, lock, clock, env_left, run>>

\* determine_action line 22: lock_fd = acquire_lock(LOCK_FILE)
DecideAcquire(r, p) ==
    /\ task[r][p].pc = "stat_done"
    /\ acquire_lock_enabled
    /\ lock' = acquire_lock(Proc(r, p))
    /\ task' = [task EXCEPT ![r][p].pc = "locked"]
    /\ UNCHANGED <<disk, db, conn, clock, env_left, run>>

\* What leaves the locked section of determine_action: a decision, or the
\* exception of the hash computation or of the store read.
DecideOutcomes(p, current_mtime) ==
    {determine_action_locked(db, p, current_mtime, disk[p])}
        \cup IF env_left > 0 THEN {Decision("STORE_ERROR", "None", "None", current_mtime)}
              ELSE {}

\* A determine_action that refreshes the record's mtime itself when it
\* decides UPDATE_MTIME.
DecideWritesMtime(r, p) ==
    /\ task[r][p].pc = "locked"
    /\ \E d \in DecideOutcomes(p, task[r][p].current_mtime) :
          /\ task' = [task EXCEPT ![r][p] =
                 LET t == [task[r][p] EXCEPT !.tracked = Len(Lookup(db, p)) > 0] IN
                 CASE d.action = "RAISED" ->
                        [t EXCEPT !.pc = "raised", !.exc = "FileNotFoundError"]
                   [] d.action = "STORE_ERROR" ->
                        [t EXCEPT !.pc = "raised", !.exc = "StoreError"]
                   [] d.action = "RUN_FFMPEG" -> Decided(t, d)
                   [] OTHER -> Returned(t, d)]
          /\ env_left' = IF d.action = "STORE_ERROR" THEN env_left - 1 ELSE env_left
          /\ db' = IF d.action = "UPDATE_MTIME"
                   THEN [passed_files |-> SqlUpdateMtime(db.passed_files, p, d.current_mtime),
                         failed_files |-> SqlUpdateMtime(db.failed_files, p, d.current_mtime)]
                   ELSE db
    /\ lock' = release_lock(Proc(r, p))
    /\ UNCHANGED <<disk, conn, clock, run>>

\* determine_action without the finally clause: the lock is still held
\* when it returns.
DecideKeepsLock(r, p) ==
    /\ task[r][p].pc = "locked"
    /\ \E d \in DecideOutcomes(p, task[r][p].current_mtime) :
          /\ task' = [task EXCEPT ![r][p] =
                 LET t == [task[r][p] EXCEPT !.tracked = Len(Lookup(db, p)) > 0] IN
                 CASE d.action = "RAISED" ->
                        [t EXCEPT !.pc = "raised", !.exc = "FileNotFoundError"]
                   [] d.action = "STORE_ERROR" ->
                        [t EXCEPT !.pc = "raised", !.exc = "StoreError"]
                   [] d.action = "RUN_FFMPEG" -> Decided(t, d)
                   [] OTHER -> Returned(t, d)]
          /\ env_left' = IF d.action = "STORE_ERROR" THEN env_left - 1 ELSE env_left
    /\ UNCHANGED <<disk, db, conn, lock, clock, run>>

\* determine_action lines 23-46: the store lookup, the decision and the
\* finally clause that releases the lock.  tracked notes whether the
\* lookup found a row ("if result:").
Decide(r, p) ==
    /\ task[r][p].pc = "locked"
    /\ \E d \in DecideOutcomes(p, task[r][p].current_mtime) :
          /\ task' = [task EXCEPT ![r][p] =
                 LET t == [task[r][p] EXCEPT !.tracked = Len(Lookup(db, p)) > 0] IN
                 CASE d.action = "RAISED" ->
                        [t EXCEPT !.pc = "raised", !.exc = "FileNotFoundError"]
                   [] d.action = "STORE_ERROR" ->
                        [t EXCEPT !.pc = "raised", !.exc = "StoreError"]
                   [] d.action = "RUN_FFMPEG" -> Decided(t, d)
                   [] OTHER -> Returned(t, d)]
          /\ env_left' = IF d.action = "STORE_ERROR" THEN env_left - 1 ELSE env_left
    /\ lock' = release_lock(Proc(r, p))
    /\ UNCHANGED <<disk, db, conn, clock, run>>

\* process_file lines 12-15: the verifier runs and its result is returned.
Verify(r, p) ==
    /\ task[r][p].pc = "decided"
    /\ \E res \in {[status |-> x.status, codec |-> x.codec] : x \in check_single_file(disk[p])} :
          task' = [task EXCEPT ![r][p] =
                     [@ EXCEPT !.pc = "returned", !.status = res.status,
                               !.codec = res.codec,
                               !.arity = ResultArity,
                               !.verifier_calls = @ + 1]]
    /\ UNCHANGED <<disk, db, conn, lock, clock, env_left, run>>

\* ------------------------------------------- statements of a transaction
\* The mtime UPDATE with the values of (file_path, mtime) bound to its
\* parameters in the order the caller's tuple has them.  When file_path is
\* not at the WHERE parameter's position the statement compares the column
\* file_path with the mtime, and no row matches.
BoundUpdateMtime(table, p, m, path_index) ==
    IF path_index = UpdateMtimeWhereParam THEN SqlUpdateMtime(table, p, m) ELSE table

RECURSIVE UpdateMtimeMany(_, _)
\* cursor.executemany("UPDATE t SET mtime = ? WHERE file_path = ?", ups)
UpdateMtimeMany(table, ups) ==
    IF ups = {} THEN table
    ELSE LET u == CHOOSE x \in ups : TRUE
         IN  UpdateMtimeMany(
                 BoundUpdateMtime(table, u.file_path, u.mtime, BufferedMtimePathIndex),
                 ups \ {u})

RECURSIVE DeleteMany(_, _)
\* for file_path, ... in ups: cursor.execute("DELETE FROM t WHERE file_path = ?")
DeleteMany(table, ups) ==
    IF ups = {} THEN table
    ELSE LET u == CHOOSE x \in ups : TRUE
         IN  DeleteMany(SqlDelete(table, u.file_path), ups \ {u})

RECURSIVE InsertMany(_, _, _)
\* cursor.executemany("INSERT OR REPLACE INTO t ... VALUES (?, ?, ?, ?, ?, ?)", ...)
InsertMany(table, ups, now) ==
    IF ups = {} THEN table
    ELSE LET u == CHOOSE x \in ups : TRUE
         IN  InsertMany(SqlInsertOrReplace(table, u.file_path, Row(u, now)), ups \ {u}, now)

\* A trace is the store after 0, 1, 2, ... statement groups of a
\* transaction, and the exception that ended it early ("none": it reached
\* conn.commit()).
Trace(steps, err) == [steps |-> steps, err |-> err]

\* The statements of a periodic or final flush (check_integrity lines
\* 136-163 and 172-195): the two mtime updates, then for each non-empty
\* list of records the deletes from the opposite table and the inserts.
\* The loop that unpacks update_info raises ValueError unless it has as
\* many targets as update_info has values.
FlushTrace(store, rn, now) ==
    LET s1 == [store EXCEPT !.passed_files = UpdateMtimeMany(@, rn.mtime_updates_passed)]
        s2 == [s1 EXCEPT !.failed_files = UpdateMtimeMany(@, rn.mtime_updates_failed)]
        unpack_ok == UpdateInfoArity = FlushUnpackArity
        s3 == [s2 EXCEPT !.failed_files = DeleteMany(@, rn.db_updates_passed),
                         !.passed_files = InsertMany(@, rn.db_updates_passed, now)]
        s4 == [s3 EXCEPT !.passed_files = DeleteMany(@, rn.db_updates_failed),
                         !.failed_files = InsertMany(@, rn.db_updates_failed, now)]
    IN  IF rn.db_updates_passed # {} /\ ~unpack_ok
        THEN Trace(<<store, s1, s2>>, "ValueError")
        ELSE IF rn.db_updates_failed # {} /\ ~unpack_ok
             THEN Trace(<<store, s1, s2, s3>>, "ValueError")
             ELSE Trace(<<store, s1, s2, s3, s4>>, "none")

\* A periodic flush that does not reset its lists (the final flush's code
\* in the loop).
FlushKeepsLists(rn, k) == rn

\* The lists a periodic flush has emptied after k statement groups.
FlushCleared(rn, k) ==
    [rn EXCEPT !.mtime_updates_passed = IF k >= 1 THEN {} ELSE @,
               !.mtime_updates_failed = IF k >= 2 THEN {} ELSE @,
               !.db_updates_passed = IF k >= 3 THEN {} ELSE @,
               !.db_updates_failed = IF k >= 4 THEN {} ELSE @]

\* An UPDATE_MTIME commit that writes the row (INSERT OR REPLACE) instead
\* of updating it.
VerboseMtimeTraceUpsert(store, p, t) ==
    LET row == [file_hash |-> t.current_hash, mtime |-> t.current_mtime,
                status |-> t.status, last_checked |-> 0, codec |-> "unknown",
                codec_type |-> "NULL"]
        s1 == IF t.status = "PASSED"
              THEN [store EXCEPT !.passed_files = SqlInsertOrReplace(@, p, row)]
              ELSE [store EXCEPT !.failed_files = SqlInsertOrReplace(@, p, row)]
    IN  Trace(<<store, s1>>, "none")

\* Verbose mode, action UPDATE_MTIME (check_integrity lines 71-74).
VerboseMtimeTrace(store, p, t) ==
    LET s1 == IF t.status = "PASSED"
              THEN [store EXCEPT !.passed_files =
                       BoundUpdateMtime(@, p, t.current_mtime, VerboseMtimePathIndex)]
              ELSE [store EXCEPT !.failed_files =
                       BoundUpdateMtime(@, p, t.current_mtime, VerboseMtimePathIndex)]
    IN  Trace(<<store, s1>>, "none")

\* update_info of a RUN_FFMPEG result (process_file line 14).
UpdateInfo(p, t) ==
    [file_path |-> p, file_hash |-> t.current_hash, mtime |-> t.current_mtime,
     status |-> t.status, codec |-> t.codec]

\* The verbose commit without its DELETE from the opposite table.
VerboseRunTraceNoDelete(store, p, t, now) ==
    LET u == UpdateInfo(p, t)
        s2 == IF t.status = "PASSED"
              THEN [store EXCEPT !.passed_files = SqlInsertOrReplace(@, p, Row(u, now))]
              ELSE [store EXCEPT !.failed_files = SqlInsertOrReplace(@, p, Row(u, now))]
    IN  Trace(<<store, store, s2>>, "none")

\* A verbose commit that picks the table by the status process_file
\* returned from the store (stored_status), not by the one in update_info.
VerboseRunTraceStoredStatus(store, p, t, now) ==
    LET u == UpdateInfo(p, t)
        s1 == IF t.stored_status = "PASSED"
              THEN [store EXCEPT !.failed_files = SqlDelete(@, p)]
              ELSE [store EXCEPT !.passed_files = SqlDelete(@, p)]
        s2 == IF t.stored_status = "PASSED"
              THEN [s1 EXCEPT !.passed_files = SqlInsertOrReplace(@, p, Row(u, now))]
              ELSE [s1 EXCEPT !.failed_files = SqlInsertOrReplace(@, p, Row(u, now))]
    IN  Trace(<<store, s1, s2>>, "none")

\* Verbose mode, action RUN_FFMPEG (check_integrity lines 82-94): the
\* delete from the opposite table, then the insert.
VerboseRunTrace(store, p, t, now) ==
    LET u == UpdateInfo(p, t)
        s1 == IF t.status = "PASSED"
              THEN [store EXCEPT !.failed_files = SqlDelete(@, p)]
              ELSE [store EXCEPT !.passed_files = SqlDelete(@, p)]
        s2 == IF t.status = "PASSED"
              THEN [s1 EXCEPT !.passed_files = SqlInsertOrReplace(@, p, Row(u, now))]
              ELSE [s1 EXCEPT !.failed_files = SqlInsertOrReplace(@, p, Row(u, now))]
    IN  Trace(<<store, s1, s2>>, "none")

\* The rows of a table whose file os.path.exists finds.
Swept(table) == [q \in {x \in DOMAIN table : disk[x].exists} |-> table[q]]

\* A sweep that looks at passed_files only.
CleanupTracePassedOnly(store) ==
    LET s1 == [store EXCEPT !.passed_files = Swept(@)]
    IN  Trace(<<store, s1, s1>>, "none")

\* cleanup_database lines 10-16.
CleanupTrace(store) ==
    LET s1 == [store EXCEPT !.passed_files = Swept(@)]
        s2 == [s1 EXCEPT !.failed_files = Swept(@)]
    IN  Trace(<<store, s1, s2>>, "none")

\* The statements of the transaction run r is about to make.
JobTrace(r) ==
    LET rn == run[r]
    IN  CASE rn.job = "verbose_mtime" -> VerboseMtimeTrace(db, rn.item, task[r][rn.item])
          [] rn.job = "verbose_run" -> VerboseRunTrace(db, rn.item, task[r][rn.item], clock)
          [] rn.job \in {"periodic", "final"} -> FlushTrace(db, rn, clock)
          [] OTHER -> CleanupTrace(db)

\* --------------------------------------------- check_integrity: the loop
AllCollected(rn, tk) == \A p \in rn.audio_files : tk[p].pc = "collected"

Pending(rn) ==
    rn.mtime_updates_passed # {} \/ rn.mtime_updates_failed # {}
        \/ rn.db_updates_passed # {} \/ rn.db_updates_failed # {}

\* Where check_integrity goes after a result is dealt with: back into the
\* loop, or past it to the final flush (parallel mode, something pending)
\* or to cleanup_database.
NextStep(rn, tk) ==
    IF ~AllCollected(rn, tk) THEN [rn EXCEPT !.pc = "loop", !.job = "none"]
    ELSE IF ~rn.verbose /\ Pending(rn)
         THEN [rn EXCEPT !.pc = "acquire", !.job = "final"]
         ELSE [rn EXCEPT !.pc = "acquire", !.job = "cleanup"]

\* An exception leaves check_integrity.  Inside "with ProcessPoolExecutor"
\* (the loop and the periodic flush of parallel mode) the executor's
\* __exit__ first waits for every submitted work unit.
Abort(rn, e) ==
    IF ~rn.verbose /\ rn.job \in {"none", "periodic"}
    THEN [rn EXCEPT !.pc = "shutdown", !.err = e]
    ELSE [rn EXCEPT !.pc = "aborted", !.err = e]

\* Parallel mode, lines 113-131: the result goes to its list.
Buffered(rn, p, t) ==
    LET counted == [rn EXCEPT !.processed_count = @ + 1]
    IN  CASE t.action = "UPDATE_MTIME" /\ t.status = "PASSED" ->
               [counted EXCEPT !.mtime_updates_passed =
                                   @ \cup {[file_path |-> p, mtime |-> t.current_mtime]}]
          [] t.action = "UPDATE_MTIME" /\ t.status # "PASSED" ->
               [counted EXCEPT !.mtime_updates_failed =
                                   @ \cup {[file_path |-> p, mtime |-> t.current_mtime]}]
          [] t.action = "RUN_FFMPEG" /\ t.status = "PASSED" ->
               [counted EXCEPT !.db_updates_passed = @ \cup {UpdateInfo(p, t)}]
          [] t.action = "RUN_FFMPEG" /\ t.status # "PASSED" ->
               [counted EXCEPT !.db_updates_failed = @ \cup {UpdateInfo(p, t)}]
          [] OTHER -> counted

\* The main process takes the result of process_file for p: line 61
\* (verbose) or lines 111-133 (parallel, future.result()).  An exception of
\* the work unit is raised here, and so is the ValueError of unpacking a
\* result that has not 5 values.
Collect(r, p) ==
    /\ IF run[r].verbose THEN run[r].pc = "process" /\ run[r].item = p
                         ELSE run[r].pc = "loop"
    /\ task[r][p].pc \in {"returned", "raised"}
    /\ LET t == task[r][p]
           tk == [task[r] EXCEPT ![p].pc = "collected"]
           rn == run[r]
       IN  /\ task' = [task EXCEPT ![r] = tk]
           /\ run' = [run EXCEPT ![r] =
                CASE t.pc = "raised" -> Abort(rn, t.exc)
                  [] t.pc # "raised" /\ t.arity # CollectUnpackArity ->
                       Abort(rn, "ValueError")
                  [] OTHER ->
                       IF rn.verbose
                       THEN IF t.action = "UPDATE_MTIME"
                            THEN [rn EXCEPT !.pc = "acquire", !.job = "verbose_mtime"]
                            ELSE IF t.action = "RUN_FFMPEG"
                                 THEN [rn EXCEPT !.pc = "acquire", !.job = "verbose_run"]
                                 ELSE NextStep(rn, tk)
                       ELSE LET b == Buffered(rn, p, t)
                            IN  IF b.processed_count % FlushEvery = 0
                                THEN [b EXCEPT !.pc = "acquire", !.job = "periodic"]
                                ELSE NextStep(b, tk)]
    /\ UNCHANGED <<disk, db, conn, lock, clock, env_left>>

\* lock_fd = acquire_lock(LOCK_FILE) before a verbose commit (lines 69,
\* 80), a flush (134, 170) or the sweep (db_cleanup line 8).
TxAcquire(r) ==
    /\ run[r].pc = "acquire"
    /\ acquire_lock_enabled
    /\ lock' = acquire_lock(MainProc(r))
    /\ run' = [run EXCEPT ![r].pc = "tx"]
    /\ UNCHANGED <<disk, db, conn, clock, env_left, task>>

\* No other connection has an open write transaction.
NoWriter == \A q \in Runs : ~conn[q].open

\* What the statements of the transaction can end in: they all run, they
\* run up to the exception their own code raises, or they run up to a
\* store error (sqlite3.OperationalError).
BodyOutcomes(r) ==
    LET tr == JobTrace(r)
        n == Len(tr.steps)
    IN  {[k |-> n - 1, err |-> tr.err]}
            \cup IF env_left > 0
                 THEN {[k |-> k, err |-> "StoreError"] : k \in 0..(n - 1)}
                 ELSE {}

\* The statements on a connection in autocommit mode (isolation_level =
\* None): each one is in the store as soon as it has run.
TxBodyAutocommit(r) ==
    /\ run[r].pc = "tx"
    /\ NoWriter
    /\ \E o \in BodyOutcomes(r) :
          LET rn == IF run[r].job = "periodic" THEN FlushCleared(run[r], o.k) ELSE run[r]
          IN  /\ conn' = [conn EXCEPT ![r] = [open |-> TRUE, store |-> JobTrace(r).steps[o.k + 1]]]
              /\ db' = JobTrace(r).steps[o.k + 1]
              /\ run' = [run EXCEPT ![r] =
                           IF o.err = "none" THEN [rn EXCEPT !.pc = "commit"]
                           ELSE [rn EXCEPT !.pc = "fail", !.err = o.err]]
              /\ env_left' = IF o.err = "StoreError" THEN env_left - 1 ELSE env_left
    /\ UNCHANGED <<disk, lock, clock, task>>

\* The statements between sqlite3.connect and conn.commit(): they change
\* the connection's view only.
TxBody(r) ==
    /\ run[r].pc = "tx"
    /\ NoWriter
    /\ \E o \in BodyOutcomes(r) :
          LET rn == IF run[r].job = "periodic" THEN FlushCleared(run[r], o.k) ELSE run[r]
          IN  /\ conn' = [conn EXCEPT ![r] = [open |-> TRUE, store |-> JobTrace(r).steps[o.k + 1]]]
              /\ run' = [run EXCEPT ![r] =
                           IF o.err = "none" THEN [rn EXCEPT !.pc = "commit"]
                           ELSE [rn EXCEPT !.pc = "fail", !.err = o.err]]
              /\ env_left' = IF o.err = "StoreError" THEN env_left - 1 ELSE env_left
    /\ UNCHANGED <<disk, db, lock, clock, task>>

\* conn.commit(); conn.close(); finally: release_lock(lock_fd)
TxCommit(r) ==
    /\ run[r].pc = "commit"
    /\ db' = conn[r].store
    /\ conn' = [conn EXCEPT ![r] = ClosedConn]
    /\ lock' = release_lock(MainProc(r))
    /\ run' = [run EXCEPT ![r] =
                 CASE run[r].job = "cleanup" -> [run[r] EXCEPT !.pc = "done", !.job = "none"]
                   [] run[r].job = "final" -> [run[r] EXCEPT !.pc = "acquire", !.job = "cleanup"]
                   [] OTHER -> NextStep(run[r], task[r])]
    /\ UNCHANGED <<disk, clock, env_left, task>>

\* An exception path that commits what has run so far (conn.commit() in
\* the finally clause).
TxFailCommits(r) ==
    /\ run[r].pc = "fail"
    /\ db' = conn[r].store
    /\ conn' = [conn EXCEPT ![r] = ClosedConn]
    /\ lock' = release_lock(MainProc(r))
    /\ run' = [run EXCEPT ![r] = Abort(run[r], run[r].err)]
    /\ UNCHANGED <<disk, clock, env_left, task>>

\* An exception path without the finally clause: the lock is not released.
TxFailKeepsLock(r) ==
    /\ run[r].pc = "fail"
    /\ conn' = [conn EXCEPT ![r] = ClosedConn]
    /\ run' = [run EXCEPT ![r] = Abort(run[r], run[r].err)]
    /\ UNCHANGED <<disk, db, lock, clock, env_left, task>>

\* An exception path that swallows the error ("except sqlite3.Error: pass"
\* before the finally clause): the run goes on to its sweep.
TxFailSwallowed(r) ==
    /\ run[r].pc = "fail"
    /\ conn' = [conn EXCEPT ![r] = ClosedConn]
    /\ lock' = release_lock(MainProc(r))
    /\ run' = [run EXCEPT ![r] = [@ EXCEPT !.pc = "acquire", !.job = "cleanup"]]
    /\ UNCHANGED <<disk, db, clock, env_left, task>>

\* An exception inside the try block: finally: release_lock(lock_fd), the
\* exception leaves check_integrity and the uncommitted transaction is
\* rolled back with its connection.
TxFail(r) ==
    /\ run[r].pc = "fail"
    /\ conn' = [conn EXCEPT ![r] = ClosedConn]
    /\ lock' = release_lock(MainProc(r))
    /\ run' = [run EXCEPT ![r] = Abort(run[r], run[r].err)]
    /\ UNCHANGED <<disk, db, clock, env_left, task>>

\* executor.shutdown(wait=True) returns: no work unit is left running.
Shutdown(r) ==
    /\ run[r].pc = "shutdown"
    /\ \A p \in run[r].audio_files : task[r][p].pc \in {"returned", "raised", "collected"}
    /\ run' = [run EXCEPT ![r].pc = "aborted"]
    /\ UNCHANGED <<disk, db, conn, lock, clock, env_left, task>>

\* ----------------------------------------------------- specification
Env == \E p \in Paths : Touch(p) \/ Modify(p) \/ Delete(p)

Worker == \E r \in Runs, p \in Paths :
              Stat(r, p) \/ DecideAcquire(r, p) \/ Decide(r, p) \/ Verify(r, p)

\* Invocations one after the other: none starts while another is under way.
StartAlone == \E r \in Runs, v \in BOOLEAN, f \in BOOLEAN :
                  /\ \A q \in Runs \ {r} : run[q].pc = "idle" \/ Ended(q)
                  /\ StartRun(r, v, f)

Steps == \E r \in Runs :
             \/ \E p \in Paths : Collect(r, p)
             \/ TxAcquire(r) \/ TxBody(r) \/ TxCommit(r) \/ TxFail(r)
             \/ Shutdown(r)

Next == Env \/ Worker \/ StartAlone \/ Steps

\* Invocations one after the other over a collection of two files.
Spec == Init /\ [][Next]_vars

\* ------------------------------------------- dbcheck --update (migration)
\* The rows update_codec_information selects:
\* codec IS NULL OR codec = 'unknown' OR codec_type IS NULL.
CodecStale(row) == row.codec = "unknown" \/ row.codec_type = "NULL"

UpdateCodecTable(table, probe) ==
    [q \in DOMAIN table |->
        IF CodecStale(table[q])
        THEN SqlUpdateCodec(table, q, probe[q], codec_type_of(probe[q]))[q]
        ELSE table[q]]

\* update_codec_information: one transaction that probes every selected
\* row's file and rewrites its codec columns.  It never takes LOCK_FILE;
\* sqlite lets it write when no other connection has a write transaction.
update_codec_information ==
    /\ NoWriter
    /\ \E probe \in [Paths -> {"flac", "unknown"}] :
          /\ \A p \in Paths : probe[p] \in get_codec(disk[p])
          /\ db' = [passed_files |-> UpdateCodecTable(db.passed_files, probe),
                    failed_files |-> UpdateCodecTable(db.failed_files, probe)]
    /\ UNCHANGED <<disk, conn, lock, clock, env_left, run, task>>

\* ------------------------------------------------ concurrent invocations
\* A collection of one file.
InitOne ==
    /\ disk = [p \in Paths |->
                 [exists |-> p = "a.flac", mtime |-> 1, content |-> "good"]]
    /\ db = EmptyDb
    /\ conn = [r \in Runs |-> ClosedConn]
    /\ lock = {}
    /\ clock = 0
    /\ env_left = MaxEnv
    /\ run = [r \in Runs |-> IdleRun]
    /\ task = [r \in Runs |-> [p \in Paths |-> IdleTask]]

StartAny == \E r \in Runs, v \in BOOLEAN, f \in BOOLEAN : StartRun(r, v, f)

NextConc == Env \/ Worker \/ StartAny \/ Steps

\* Invocations that overlap, over one file.
SpecConc == InitOne /\ [][NextConc]_vars

NextDb == Env \/ Worker \/ StartAny \/ Steps \/ update_codec_information

\* Invocations that overlap, and dbcheck's migration, over one file.
SpecDb == InitOne /\ [][NextDb]_vars

\* The main process of an invocation with locals rn is between
\* acquire_lock and release_lock.
InTxOf(rn) == rn.pc \in {"tx", "commit", "fail"}

\* --------------------------------------------- a collection with a record
\* The store after an earlier verbose run over a.flac, and the file
\* touched since: the record has the file's fingerprint and an older mtime.
InitTracked ==
    /\ disk = [p \in Paths |->
                 [exists |-> p = "a.flac", mtime |-> MaxMtime, content |-> "good"]]
    /\ db = [passed_files |->
                 SqlInsertOrReplace(EmptyTable, "a.flac",
                     Row([file_hash |-> calculate_file_hash("good"), mtime |-> 1,
                          status |-> "PASSED", codec |-> "flac"], 0)),
             failed_files |-> EmptyTable]
    /\ conn = [r \in Runs |-> ClosedConn]
    /\ lock = {}
    /\ clock = 0
    /\ env_left = MaxEnv
    /\ run = [r \in Runs |-> IdleRun]
    /\ task = [r \in Runs |-> [p \in Paths |-> IdleTask]]

\* Invocations that overlap, over one file that has a record.
SpecTracked == InitTracked /\ [][NextConc]_vars

\* ------------------------------------------------ abnormal termination
\* What is left of the work units of an invocation whose processes were
\* killed: the ones under way are gone.
KilledTasks(tk) ==
    [p \in Paths |->
        IF tk[p].pc \in {"none", "collected"} THEN tk[p]
        ELSE [tk[p] EXCEPT !.pc = "killed"]]

\* A lock that is a file's existence (open with O_CREAT | O_EXCL, removed by
\* release_lock): the file of a killed holder stays.
KillLeavesLockFile(r) ==
    /\ \E proc \in lock : proc[1] = r
    /\ conn' = [conn EXCEPT ![r] = ClosedConn]
    /\ run' = [run EXCEPT ![r] = [@ EXCEPT !.pc = "aborted", !.err = "Killed"]]
    /\ task' = [task EXCEPT ![r] = KilledTasks(@)]
    /\ UNCHANGED <<disk, db, lock, clock, env_left>>

\* The processes of invocation r are killed (SIGKILL, out of memory) while
\* one of them is inside a locked section.  acquire_lock holds the lock
\* through the open file lock_fd (lock_utils lines 8-9): the kernel closes
\* the files of a process that ends, and a flock lock goes with its file.
\* The open transaction is rolled back by the next connection.
Kill(r) ==
    /\ \E proc \in lock : proc[1] = r
    /\ lock' = {proc \in lock : proc[1] # r}
    /\ conn' = [conn EXCEPT ![r] = ClosedConn]
    /\ run' = [run EXCEPT ![r] = [@ EXCEPT !.pc = "aborted", !.err = "Killed"]]
    /\ task' = [task EXCEPT ![r] = KilledTasks(@)]
    /\ UNCHANGED <<disk, db, clock, env_left>>

Killed == \E r \in Runs : Kill(r)

NextKill == Worker \/ StartAny \/ Steps \/ Killed

\* Invocations that overlap and can be killed, over one file that nobody
\* touches.  The operating system runs every process that can take a
\* step: a work unit or a main process that is not blocked goes on.
SpecKill == InitOne /\ [][NextKill]_vars /\ WF_vars(Worker) /\ WF_vars(Steps)


\* ------------------------------------------------------ a stalled holder
\* The process of invocation r that is inside a locked section stops there
\* (SIGSTOP, a read of the file or of the store that hangs) and keeps the
\* lock.  acquire_lock calls flock(lock_fd, LOCK_EX) with no LOCK_NB, no
\* timeout and no retry count: the others wait in it.
Stop(r) ==
    /\ \E proc \in lock : proc[1] = r
    /\ run' = [run EXCEPT ![r].pc = IF InTxOf(run[r]) THEN "stopped" ELSE @]
    /\ task' = [task EXCEPT ![r] =
                  [p \in Paths |->
                      IF task[r][p].pc = "locked"
                      THEN [task[r][p] EXCEPT !.pc = "stopped"]
                      ELSE task[r][p]]]
    /\ UNCHANGED <<disk, db, conn, lock, clock, env_left>>

Stopped == \E r \in Runs : Stop(r)

NextStall == Worker \/ StartAny \/ Steps \/ Stopped

\* Invocations that overlap, over one file that nobody touches, in which
\* a lock holder can stop for good.  Every process that can take a step
\* takes it.
SpecStall == InitOne /\ [][NextStall]_vars /\ WF_vars(Worker) /\ WF_vars(Steps)

\* ------------------------------------------------------ a crashed worker
\* The pool worker that runs process_file for p dies (killed, out of
\* memory, a crash of the interpreter).  The executor marks the pool
\* broken: it ends the other workers and sets BrokenProcessPool on every
\* future that has no result yet; future.result() (line 111) raises it.
\* The locks of the dead workers go with their files.
CrashWorker(r, p) ==
    /\ ~run[r].verbose /\ ~Ended(r) /\ run[r].pc # "idle"
    /\ p \in Running(r)
    /\ task' = [task EXCEPT ![r] =
                  [q \in Paths |->
                      IF task[r][q].pc \in {"submitted", "stat_done", "locked", "decided"}
                      THEN [task[r][q] EXCEPT !.pc = "raised", !.exc = "BrokenProcessPool"]
                      ELSE task[r][q]]]
    /\ lock' = {proc \in lock : proc[1] # r \/ proc[2] = Main}
    /\ UNCHANGED <<disk, db, conn, clock, env_left, run>>

Crashed == \E r \in Runs, p \in Paths : CrashWorker(r, p)

NextCrash == Worker \/ StartAlone \/ Steps \/ Crashed

\* Invocations one after the other, over two files that nobody touches,
\* in which a pool worker can die.  Every process that can take a step
\* takes it.
SpecCrash == Init /\ [][NextCrash]_vars /\ WF_vars(Worker) /\ WF_vars(Steps)

\* ------------------------------------------------------------ interrupt
\* SIGINT reaches the main process inside the as_completed loop of
\* parallel mode: KeyboardInterrupt is raised there.  check_integrity has
\* no handler for it, so it leaves the loop as any exception does: the
\* executor's __exit__ waits for the submitted work units (shutdown takes
\* no cancel_futures), lines 169-201 are skipped and audio_tool's
\* "except KeyboardInterrupt" prints "Quitting job...".
Interrupt(r) ==
    /\ ~run[r].verbose
    /\ run[r].pc = "loop"
    /\ run' = [run EXCEPT ![r] = Abort(run[r], "KeyboardInterrupt")]
    /\ UNCHANGED <<disk, db, conn, lock, clock, env_left, task>>

Interrupted == \E r \in Runs : Interrupt(r)

NextInt == Env \/ Worker \/ StartAlone \/ Steps \/ Interrupted

\* Invocations one after the other that can be interrupted, over two files.
SpecInt == Init /\ [][NextInt]_vars


\* ============================================================ claims
InPassed(store, p) == Has(store.passed_files, p)
InFailed(store, p) == Has(store.failed_files, p)
InOne(store, p) == InPassed(store, p) # InFailed(store, p)
InNone(store, p) == ~InPassed(store, p) /\ ~InFailed(store, p)

\* The invocations under way, and those inside a locked section.
Active(r) == run[r].pc # "idle" /\ ~Ended(r)
InTx(r) == run[r].pc \in {"tx", "commit", "fail"}
LockedSections ==
    {x \in Runs \X Paths : task[x[1]][x[2]].pc = "locked"}
        \cup {<<q, Main>> : q \in {x \in Runs : InTx(x)}}

\* C1: in every reachable store state, whatever the interleaving of verbose
\* commits, flushes and sweeps of concurrent invocations, no path has a
\* row in both passed_files and failed_files.
C1_NoPathInBothTables ==
    \A p \in Paths : ~(InPassed(db, p) /\ InFailed(db, p))

\* Two invocations overlap, one has committed PASSED for a path and is at
\* its sweep, and the path's row is now in failed_files alone.
C1_Witness ==
    \E r1, r2 \in Runs, p \in Paths :
        /\ r1 # r2 /\ Active(r1) /\ Active(r2)
        /\ run[r1].verbose /\ run[r1].job = "cleanup"
        /\ task[r1][p].action = "RUN_FFMPEG" /\ task[r1][p].status = "PASSED"
        /\ InFailed(db, p) /\ ~InPassed(db, p)

\* C2: after any run of check_integrity, in either mode, every file of the
\* run that still exists has its path in exactly one of the two tables.
\* Stated for the runs under which no file changed and which no store
\* error ended.
C2_AfterRunExactlyOneTable ==
    \A r \in Runs :
        (Ended(r) /\ run[r].err # "StoreError" /\ run[r].changed = {})
            => \A p \in run[r].audio_files : disk[p].exists => InOne(db, p)

\* C3: a commit that moves a path to the other table deletes the stale row
\* and inserts the new one in one transaction: no step takes the store
\* from "the path is in one table" to "in both", or to "in neither" while
\* the file exists.
C3_FlipIsAtomic ==
    [][\A p \in Paths :
          InOne(db, p) => (InOne(db', p) \/ (InNone(db', p) /\ ~disk[p].exists))]_vars

\* A verbose commit has run its DELETE and INSERT on its connection and
\* not yet committed: the connection holds the path in the other table
\* than the store does, while another invocation is under way.
C3_Witness ==
    \E r, r2 \in Runs, p \in Paths :
        /\ r # r2 /\ Active(r2)
        /\ run[r].pc = "commit" /\ run[r].job = "verbose_run" /\ run[r].item = p
        /\ InOne(db, p) /\ InOne(conn[r].store, p)
        /\ InPassed(db, p) # InPassed(conn[r].store, p)

\* C4: a transaction of check_integrity, a periodic or final flush in
\* particular, is all-or-nothing: while its statements run, and when one
\* of them raises before conn.commit(), the store does not change.
C4_FlushAllOrNothing ==
    [][\A r \in Runs : run[r].pc \in {"tx", "fail"} => db' = db]_vars

\* A flush whose batch held an mtime update and a verified record raised
\* after its UPDATE statements ran, and its connection is still open.
C4_Witness ==
    \E r \in Runs :
        /\ run[r].job \in {"periodic", "final"} /\ run[r].pc = "fail"
        /\ run[r].err = "ValueError" /\ conn[r].open
        /\ \E p \in run[r].audio_files : task[r][p].action = "UPDATE_MTIME"
        /\ \E p \in run[r].audio_files : task[r][p].action = "RUN_FFMPEG"

\* C5: at most one process is inside a locked section (determine_action's
\* lookup, a verbose commit, a flush, the sweep) and at most one holds the
\* lock.
C5_AtMostOneLockHolder ==
    Cardinality(LockedSections) <= 1 /\ Cardinality(lock) <= 1

\* A worker is inside determine_action's locked section while the main
\* process of another invocation waits for the lock.
C5_Witness ==
    \E r1, r2 \in Runs, p \in Paths :
        r1 # r2 /\ task[r1][p].pc = "locked" /\ run[r2].pc = "acquire"

\* C6: no process leaves a locked section with the lock still held,
\* whether it leaves by its end or by an exception: every holder of the
\* lock is inside its locked section.
C6_LockReleasedOnEveryExit ==
    \A proc \in lock :
        \/ proc[2] = Main /\ InTx(proc[1])
        \/ \E p \in Paths : task[proc[1]][p].pc = "locked" /\ Proc(proc[1], p) = proc

\* A transaction raised and its exception has left check_integrity, and a
\* work unit's locked section raised too: nobody holds the lock.
C6_Witness ==
    /\ lock = {}
    /\ \E r \in Runs : run[r].pc \in {"shutdown", "aborted"} /\ run[r].job # "none"
                          /\ run[r].err # "none"
    /\ \E r \in Runs, p \in Paths : task[r][p].pc = "raised"

\* C7: every write to rows of passed_files or failed_files is made by a
\* verbose commit, a flush or the sweep, by a process that holds the lock.
C7_WritesOnlyUnderLock ==
    [][db' # db => \E r \in Runs : run[r].pc = "commit" /\ MainProc(r) \in lock]_vars

\* C8: determine_action looks the path up while its process holds the
\* lock, and no other process is inside a commit, flush or sweep then.
C8_LookupUnderLock ==
    \A r \in Runs, p \in Paths :
        task[r][p].pc = "locked"
            => /\ Proc(r, p) \in lock
               /\ \A q \in Runs : InTx(q) => MainProc(q) = Proc(r, p)

\* A work unit is at its lookup while another invocation, with a result
\* to commit, waits for the lock.
C8_Witness ==
    \E r1, r2 \in Runs, p \in Paths :
        /\ r1 # r2 /\ task[r1][p].pc = "locked" /\ ~run[r1].force_recheck
        /\ run[r2].pc = "acquire" /\ run[r2].job \in {"verbose_run", "final"}

\* The work unit of p in run r has its decision.
HasDecision(r, p) ==
    task[r][p].pc \in {"decided", "returned", "collected"} /\ task[r][p].exc = "none"

\* C9: idempotence: when a run has ended and a second, unforced run is
\* made over files none of which changed since the first started, the
\* second run's action for each file is USE_CACHED with the stored outcome,
\* and the verifier is not invoked.  Stated for first runs that no store
\* error ended.
C9_SecondRunUsesCache ==
    \A r1, r2 \in Runs :
        \A p \in run[r1].audio_files \cap run[r2].audio_files :
            (r1 \in run[r2].after /\ run[r1].err # "StoreError"
                 /\ ~run[r2].force_recheck
                 /\ run[r1].changed = {} /\ HasDecision(r2, p))
              => /\ task[r2][p].action = "USE_CACHED"
                 /\ Len(Lookup(db, p)) = 1
                 /\ task[r2][p].stored_status = Lookup(db, p)[1].status
                 /\ task[r2][p].verifier_calls = 0

\* C10: first verification: a run over an existing file with no row yields
\* RUN_FFMPEG, one verifier invocation and, after the run, exactly one row
\* for the path, in the table of the verifier's outcome, with the hash and
\* mtime determine_action computed.  Stated for the first invocation (the
\* store is empty), when no file changed and no store error ended it.
C10_FirstVerificationRecorded ==
    LET r == RunOrder[1]
    IN  (Ended(r) /\ run[r].err # "StoreError" /\ run[r].changed = {}
            /\ \A q \in Runs \ {r} : run[q].pc = "idle")
          => \A p \in run[r].audio_files :
                /\ task[r][p].action = "RUN_FFMPEG"
                /\ task[r][p].verifier_calls = 1
                /\ InOne(db, p)
                /\ InPassed(db, p) = (task[r][p].status = "PASSED")
                /\ Lookup(db, p)[1].file_hash = task[r][p].current_hash
                /\ Lookup(db, p)[1].mtime = task[r][p].current_mtime
                /\ Lookup(db, p)[1].status = task[r][p].status

\* C11: mtime-only change: when a run has decided UPDATE_MTIME for a file
\* (tracked, mtime changed, bytes unchanged) and has ended with no file
\* changed under it, the verifier was not invoked for the file, its record
\* is in the same table with the same fingerprint and outcome, and the
\* record's mtime is the file's current mtime.
C11_MtimeOnlyChangeRefreshed ==
    \A r \in Runs :
        (Ended(r) /\ run[r].err # "StoreError" /\ run[r].changed = {})
          => \A p \in run[r].audio_files :
                task[r][p].action = "UPDATE_MTIME"
                  => /\ task[r][p].verifier_calls = 0
                     /\ InOne(db, p)
                     /\ InPassed(db, p) = (task[r][p].stored_status = "PASSED")
                     /\ Lookup(db, p)[1].file_hash = task[r][p].current_hash
                     /\ Lookup(db, p)[1].status = task[r][p].stored_status
                     /\ Lookup(db, p)[1].mtime = disk[p].mtime

\* C12: content change: when an unforced run has decided RUN_FFMPEG for a
\* tracked file (its bytes differ from the record's fingerprint) and has
\* ended with no file changed under it, the verifier was invoked once for
\* the file and its record is in the table of the new outcome alone, with
\* the new fingerprint and mtime.
C12_ContentChangeRecorded ==
    \A r \in Runs :
        (Ended(r) /\ run[r].err # "StoreError" /\ run[r].changed = {})
          => \A p \in run[r].audio_files :
                (task[r][p].action = "RUN_FFMPEG" /\ task[r][p].tracked)
                  => /\ task[r][p].verifier_calls = 1
                     /\ InOne(db, p)
                     /\ InPassed(db, p) = (task[r][p].status = "PASSED")
                     /\ Lookup(db, p)[1].file_hash = task[r][p].current_hash
                     /\ Lookup(db, p)[1].mtime = task[r][p].current_mtime

\* C13: forced recheck: with force_recheck true determine_action returns
\* RUN_FFMPEG whatever the store holds, for a file that exists when it is
\* checked (a file that has vanished yields FILE_NOT_FOUND), and the file
\* is verified by one verifier invocation.
C13_ForcedRecheckRuns ==
    \A r \in Runs, p \in Paths :
        (run[r].force_recheck /\ HasDecision(r, p))
          => /\ task[r][p].action \in {"RUN_FFMPEG", "FILE_NOT_FOUND"}
             /\ disk[p].exists => task[r][p].action = "RUN_FFMPEG"
             /\ task[r][p].action = "FILE_NOT_FOUND" => p \in run[r].changed
             /\ (task[r][p].action = "RUN_FFMPEG"
                     /\ task[r][p].pc \in {"returned", "collected"})
                  => task[r][p].verifier_calls = 1

\* A forced run has verified once more a file that is unchanged and has a
\* PASSED record with the file's mtime and fingerprint.
C13_Witness ==
    \E r \in Runs, p \in Paths :
        /\ run[r].force_recheck /\ task[r][p].pc = "returned"
        /\ task[r][p].action = "RUN_FFMPEG" /\ task[r][p].verifier_calls = 1
        /\ disk[p].exists /\ InPassed(db, p)
        /\ db.passed_files[p].status = "PASSED"
        /\ db.passed_files[p].mtime = disk[p].mtime
        /\ db.passed_files[p].file_hash = calculate_file_hash(disk[p].content)

\* C13 as the spec words it: with force_recheck true the action is always
\* RUN_FFMPEG.
C13_ForcedAlwaysRun ==
    \A r \in Runs, p \in Paths :
        (run[r].force_recheck /\ HasDecision(r, p))
          => task[r][p].action = "RUN_FFMPEG"

\* The step in which the work unit of p in run r leaves the locked section
\* of determine_action with a decision.
DecisionStep(r, p) ==
    task[r][p].pc = "locked" /\ task'[r][p].pc \in {"returned", "decided"}

\* C14: what determine_action trusts.  It returns UPDATE_MTIME only when
\* the file's fingerprint equals the stored one, and USE_CACHED only when
\* the stored mtime equals the mtime it read (the bytes are not looked
\* at); when the mtime differs and the fingerprint differs it returns
\* RUN_FFMPEG.
C14_TrustOnlyMatchingRecord ==
    [][\A r \in Runs, p \in Paths :
          DecisionStep(r, p)
            => LET found == Lookup(db, p)
                   mtime_read == task[r][p].current_mtime
                   fingerprint == calculate_file_hash(disk[p].content)
                   action == task'[r][p].action
               IN  /\ action = "USE_CACHED"
                        => /\ Len(found) > 0
                           /\ found[1].mtime = mtime_read
                           /\ task'[r][p].stored_status = found[1].status
                   /\ action = "UPDATE_MTIME"
                        => /\ Len(found) > 0
                           /\ found[1].mtime # mtime_read
                           /\ found[1].file_hash = fingerprint
                           /\ task'[r][p].stored_status = found[1].status
                   /\ (Len(found) > 0 /\ found[1].mtime # mtime_read
                           /\ found[1].file_hash # fingerprint)
                        => action = "RUN_FFMPEG"]_vars

\* determine_action has returned RUN_FFMPEG for a tracked file whose mtime
\* and fingerprint both differ from the record's.
C14_Witness ==
    \E r \in Runs, p \in Paths :
        /\ ~run[r].force_recheck /\ task[r][p].pc = "decided" /\ task[r][p].tracked
        /\ task[r][p].action = "RUN_FFMPEG"
        /\ Len(Lookup(db, p)) > 0
        /\ Lookup(db, p)[1].mtime # task[r][p].current_mtime
        /\ Lookup(db, p)[1].file_hash # task[r][p].current_hash

\* C14 as the spec words it: USE_CACHED or UPDATE_MTIME only if the file's
\* fingerprint equals the stored one.
C14_NeverTrustsChangedContent ==
    [][\A r \in Runs, p \in Paths :
          (DecisionStep(r, p) /\ task'[r][p].action \in {"USE_CACHED", "UPDATE_MTIME"})
            => /\ Len(Lookup(db, p)) > 0
               /\ Lookup(db, p)[1].file_hash = calculate_file_hash(disk[p].content)]_vars

\* after is before without the rows of the files that do not exist.
IsSweepOf(after, before) ==
    /\ DOMAIN after = {p \in DOMAIN before : disk[p].exists}
    /\ \A p \in DOMAIN after : after[p] = before[p]

\* C15: cleanup_database deletes the row of every path, in passed_files
\* and in failed_files, whose file os.path.exists does not find, leaves
\* every other row as it is in its table, and commits exactly that.
C15_SweepRemovesOnlyMissingFiles ==
    [][\A r \in Runs :
          run[r].job = "cleanup"
            => /\ (run[r].pc = "tx" /\ run'[r].pc = "commit")
                    => /\ IsSweepOf(conn'[r].store.passed_files, db.passed_files)
                       /\ IsSweepOf(conn'[r].store.failed_files, db.failed_files)
               /\ (run[r].pc = "commit" /\ run'[r].pc = "done")
                    => /\ db' = conn[r].store
                       /\ \A p \in Paths :
                             /\ InPassed(db', p)
                                  => InPassed(db, p) /\ db'.passed_files[p] = db.passed_files[p]
                             /\ InFailed(db', p)
                                  => InFailed(db, p) /\ db'.failed_files[p] = db.failed_files[p]
                             /\ (~InNone(db, p) /\ InNone(db', p)) => ~disk[p].exists]_vars

\* A sweep is about to commit: it has deleted the failed_files row of a
\* file that is gone and kept the row of a file that exists.
C15_Witness ==
    \E r \in Runs, p, q \in Paths :
        /\ run[r].job = "cleanup" /\ run[r].pc = "commit"
        /\ InFailed(db, p) /\ InNone(conn[r].store, p) /\ ~disk[p].exists
        /\ InPassed(db, q) /\ InPassed(conn[r].store, q) /\ disk[q].exists

\* C16: the failure of one work unit does not abort the run: when the
\* exception of process_file for a path has been collected, the run goes
\* on (it is not ended by that exception), and once the run is done the
\* path has a row in failed_files.
C16_WorkUnitFailureIsolated ==
    \A r \in Runs, p \in Paths :
        (task[r][p].pc = "collected" /\ task[r][p].exc # "none")
          => /\ ~(run[r].pc \in {"shutdown", "aborted"} /\ run[r].err = task[r][p].exc)
             /\ run[r].pc = "done" => InFailed(db, p)

\* C17: a file that is gone when it is checked is skipped and is not
\* fatal: when the FILE_NOT_FOUND result of process_file has been
\* collected, the run is not ended at the collection of a result (it goes
\* on to the remaining files, its final flush and the sweep).
C17_VanishedFileSkipped ==
    \A r \in Runs, p \in Paths :
        (task[r][p].pc = "collected" /\ task[r][p].action = "FILE_NOT_FOUND")
          => ~(run[r].pc \in {"shutdown", "aborted"} /\ run[r].job = "none")

\* C18: check_single_file never raises and always returns a classified
\* result: PASSED with empty detail exactly when the tool completed with
\* empty error output; FAILED with the error text when the error output is
\* not empty; FAILED "FFmpeg timed out" on timeout; FAILED with the
\* exception's text on any other exception.  A work unit that called the
\* verifier has returned or is returning a result, not an exception.
C18_VerifierAlwaysClassifies ==
    /\ \A p \in Paths :
          /\ check_single_file(disk[p]) # {}
          /\ \A res \in check_single_file(disk[p]) :
                /\ res.status \in {"PASSED", "FAILED"}
                /\ (res.status = "PASSED")
                     = (res.event = "completed" /\ res.stderr = "")
                /\ res.status = "PASSED" => res.message = ""
                /\ (res.event = "completed" /\ res.stderr # "")
                     => res.message = strip(res.stderr)
                /\ res.event = "timeout" => res.message = "FFmpeg timed out"
                /\ res.event = "exception" => res.message = "str(e)"
    /\ \A r \in Runs, p \in Paths :
          task[r][p].verifier_calls > 0
            => /\ task[r][p].pc \in {"returned", "collected"}
               /\ task[r][p].exc = "none"
               /\ task[r][p].status \in {"PASSED", "FAILED"}

\* The verifier has returned FAILED for a file whose bytes decode cleanly
\* (a timeout or another exception), and PASSED for it in another run.
C18_Witness ==
    \E r1, r2 \in Runs, p \in Paths :
        /\ disk[p].exists /\ disk[p].content = "good" /\ p \notin run[r1].changed
        /\ task[r2][p].verifier_calls = 1 /\ task[r2][p].status = "FAILED"
        /\ task[r2][p].pc = "returned"
        /\ InPassed(db, p) /\ r1 \in run[r2].after

\* C19: when a parallel run has reached cleanup_database, every
\* UPDATE_MTIME and RUN_FFMPEG result of the run is in the store: the
\* record of a refreshed file has the mtime the run read, and the record
\* of a verified file has the run's fingerprint, mtime and outcome.
C19_AllResultsFlushedBeforeSweep ==
    \A r \in Runs :
        (~run[r].verbose /\ run[r].job = "cleanup")
          => \A p \in run[r].audio_files :
                /\ task[r][p].action = "UPDATE_MTIME"
                     => /\ Len(Lookup(db, p)) = 1
                        /\ Lookup(db, p)[1].mtime = task[r][p].current_mtime
                /\ task[r][p].action = "RUN_FFMPEG"
                     => /\ Len(Lookup(db, p)) = 1
                        /\ Lookup(db, p)[1].mtime = task[r][p].current_mtime
                        /\ Lookup(db, p)[1].file_hash = task[r][p].current_hash
                        /\ Lookup(db, p)[1].status = task[r][p].status

\* What the store holds for a path: its row in each table, if any.
PathRows(store, p) ==
    <<IF InPassed(store, p) THEN <<store.passed_files[p]>> ELSE <<>>,
      IF InFailed(store, p) THEN <<store.failed_files[p]>> ELSE <<>>>>

\* C20: decide-and-commit sequences for one path do not interleave: while
\* a run has decided a write for p (RUN_FFMPEG or UPDATE_MTIME) that it
\* has not yet taken to commit, no commit changes what the store holds for
\* p.  Stated for the deciding runs that do commit their result for p,
\* the verbose ones.
C20_DecideAndCommitNotInterleaved ==
    [][\A r \in Runs, p \in Paths :
          (Active(r) /\ run[r].verbose /\ task[r][p].pc \in {"decided", "returned"}
               /\ task[r][p].action \in {"RUN_FFMPEG", "UPDATE_MTIME"})
            => PathRows(db', p) = PathRows(db, p)]_vars

\* C21: a process that is killed while it holds the lock does not leave it
\* held: no process of a killed invocation is a holder, and every process
\* that waits in acquire_lock, then or later, gets the lock (a main
\* process before its commit, flush or sweep, a work unit before its
\* lookup), unless it is killed itself.
C21_KilledHolderFreesLock ==
    /\ [](\A proc \in lock : run[proc[1]].err # "Killed")
    /\ \A r \in Runs :
          (run[r].pc = "acquire") ~> (run[r].pc = "tx" \/ run[r].err = "Killed")
    /\ \A r \in Runs, p \in Paths :
          (task[r][p].pc = "stat_done")
              ~> (task[r][p].pc = "locked" \/ run[r].err = "Killed")

\* An invocation was killed inside a locked section, and the main process
\* of another invocation, started before the kill, is now inside its own
\* transaction with the lock.
C21_Witness ==
    \E r, q \in Runs :
        /\ r # q /\ run[r].err = "Killed" /\ run[r].pc = "aborted"
        /\ q \notin run[r].after /\ r \notin run[q].after
        /\ run[q].pc = "tx" /\ lock = {MainProc(q)}


\* The store holds what the lists of pending results say: the record of
\* every buffered refresh has the buffered mtime, and the record of every
\* buffered verification has its fingerprint, mtime and outcome.
BufferedInStore(store, rn) ==
    /\ \A u \in rn.mtime_updates_passed \cup rn.mtime_updates_failed :
          /\ Len(Lookup(store, u.file_path)) = 1
          /\ Lookup(store, u.file_path)[1].mtime = u.mtime
    /\ \A u \in rn.db_updates_passed \cup rn.db_updates_failed :
          /\ Len(Lookup(store, u.file_path)) = 1
          /\ Lookup(store, u.file_path)[1].file_hash = u.file_hash
          /\ Lookup(store, u.file_path)[1].mtime = u.mtime
          /\ Lookup(store, u.file_path)[1].status = u.status

\* C22: on an interrupt during batch processing the results computed and
\* buffered but not yet committed are flushed before the process exits
\* (the store holds them when the interrupted run has ended), and no work
\* unit is started after the interrupt.
C22_InterruptFlushesBuffered ==
    [][\A r \in Runs :
          /\ (run'[r].pc = "aborted" /\ run'[r].err = "KeyboardInterrupt")
                => BufferedInStore(db', run'[r])
          /\ (run[r].pc = "shutdown" /\ run[r].err = "KeyboardInterrupt")
                => \A p \in Paths :
                      task[r][p].pc = "submitted" => task'[r][p].pc = "submitted"]_vars


\* C23: a store error during a flush aborts that commit only and goes to
\* the caller: from the failing statement until the exception has left
\* check_integrity the store does not change (the records of every
\* earlier commit stay as they are), and the run ends by that error: it
\* does not go on to another transaction.
C23_FlushStoreErrorSurfaced ==
    [][\A r \in Runs :
          (run[r].job \in {"periodic", "final"} /\ run[r].err = "StoreError"
               /\ run[r].pc \in {"fail", "shutdown"})
            => /\ db' = db
               /\ run'[r].pc \in {"fail", "shutdown", "aborted"}
               /\ run[r].pc = "shutdown" => run'[r].pc # "fail"
               /\ run'[r].err = "StoreError"]_vars

\* A flush over a verified record raised a store error while the store
\* holds the record an earlier run committed.
C23_Witness ==
    \E r, q \in Runs, p \in Paths :
        /\ q \in run[r].after /\ run[q].pc = "done"
        /\ ~InNone(db, p)
        /\ run[r].job \in {"periodic", "final"} /\ run[r].pc = "fail"
        /\ run[r].err = "StoreError" /\ conn[r].open
        /\ run[r].db_updates_passed \cup run[r].db_updates_failed # {}


\* C24: a verifier failure or timeout is not fatal: a run in which the
\* verifier returned FAILED for a file completes normally, and after it
\* the file has a record in failed_files and none in passed_files.
\* Stated for the runs under which no file changed, in which no work unit
\* raised or found its file gone, and which no store error ended.
C24_VerifierFailureNotFatal ==
    \A r \in Runs :
        (Ended(r) /\ run[r].err # "StoreError" /\ run[r].changed = {}
            /\ \A q \in run[r].audio_files :
                  task[r][q].exc = "none" /\ task[r][q].action # "FILE_NOT_FOUND")
          => \A p \in run[r].audio_files :
                (task[r][p].verifier_calls = 1 /\ task[r][p].status = "FAILED")
                  => /\ run[r].pc = "done"
                     /\ InFailed(db, p)
                     /\ ~InPassed(db, p)


\* The step in which the work unit of p in run r leaves the locked section
\* of determine_action, by a decision or by the exception of the hash
\* computation (not by a store error).
LookupStep(r, p) ==
    /\ task[r][p].pc = "locked" /\ task'[r][p].pc # "locked"
    /\ task'[r][p].exc # "StoreError"

\* C25: fast path: unforced, when the path has a record whose stored mtime
\* equals the mtime read from the file, determine_action returns
\* USE_CACHED with the record's outcome and computes no fingerprint (it
\* does not read the file), and process_file returns that result without
\* invoking the verifier.
C25_FastPathUsesCache ==
    [][\A r \in Runs, p \in Paths :
          LET found == Lookup(db, p) IN
          (LookupStep(r, p) /\ Len(found) > 0
               /\ found[1].mtime = task[r][p].current_mtime)
            => /\ task'[r][p].pc = "returned"
               /\ task'[r][p].action = "USE_CACHED"
               /\ task'[r][p].stored_status = found[1].status
               /\ task'[r][p].status = found[1].status
               /\ task'[r][p].current_hash = "None"
               /\ task'[r][p].arity = ResultArity
               /\ task'[r][p].verifier_calls = 0]_vars

\* process_file has returned USE_CACHED, with no verifier call, for a file
\* whose record has the file's mtime.
C25_Witness ==
    \E r \in Runs, p \in Paths :
        /\ ~run[r].force_recheck /\ task[r][p].pc = "returned"
        /\ task[r][p].action = "USE_CACHED" /\ task[r][p].verifier_calls = 0
        /\ disk[p].exists /\ Len(Lookup(db, p)) = 1
        /\ Lookup(db, p)[1].mtime = disk[p].mtime
        /\ task[r][p].status = Lookup(db, p)[1].status


\* C26: unforced, when the path has a record whose stored mtime differs
\* from the mtime read from the file and whose fingerprint equals the
\* file's, determine_action returns UPDATE_MTIME with the record's
\* outcome, the file's fingerprint and the mtime it read (the file's
\* mtime, when nobody changed the file under the run), and process_file
\* returns that result without invoking the verifier.
C26_UnchangedBytesRefresh ==
    [][\A r \in Runs, p \in Paths :
          LET found == Lookup(db, p) IN
          (LookupStep(r, p) /\ Len(found) > 0
               /\ found[1].mtime # task[r][p].current_mtime
               /\ disk[p].exists
               /\ found[1].file_hash = calculate_file_hash(disk[p].content))
            => /\ task'[r][p].pc = "returned"
               /\ task'[r][p].action = "UPDATE_MTIME"
               /\ task'[r][p].stored_status = found[1].status
               /\ task'[r][p].status = found[1].status
               /\ task'[r][p].current_hash = calculate_file_hash(disk[p].content)
               /\ task'[r][p].current_mtime = task[r][p].current_mtime
               /\ p \notin run[r].changed => task'[r][p].current_mtime = disk[p].mtime
               /\ task'[r][p].arity = ResultArity
               /\ task'[r][p].verifier_calls = 0]_vars

\* process_file has returned UPDATE_MTIME, with no verifier call, for a
\* file whose record has the file's fingerprint and another mtime.
C26_Witness ==
    \E r \in Runs, p \in Paths :
        /\ ~run[r].force_recheck /\ task[r][p].pc = "returned"
        /\ task[r][p].action = "UPDATE_MTIME" /\ task[r][p].verifier_calls = 0
        /\ disk[p].exists /\ Len(Lookup(db, p)) = 1
        /\ Lookup(db, p)[1].mtime # disk[p].mtime
        /\ task[r][p].current_mtime = disk[p].mtime
        /\ Lookup(db, p)[1].file_hash = task[r][p].current_hash


\* C27: unforced, when the file exists and neither table has a record for
\* the path, determine_action returns RUN_FFMPEG with no stored outcome,
\* the file's fingerprint and the mtime it read (the file's mtime, when
\* nobody changed the file under the run).
C27_UntrackedFileIsRun ==
    [][\A r \in Runs, p \in Paths :
          (LookupStep(r, p) /\ InNone(db, p) /\ disk[p].exists)
            => /\ task'[r][p].pc = "decided"
               /\ task'[r][p].action = "RUN_FFMPEG"
               /\ task'[r][p].stored_status = "None"
               /\ task'[r][p].current_hash = calculate_file_hash(disk[p].content)
               /\ task'[r][p].current_mtime = task[r][p].current_mtime
               /\ p \notin run[r].changed => task'[r][p].current_mtime = disk[p].mtime
               /\ ~task'[r][p].tracked]_vars

\* determine_action has returned RUN_FFMPEG, with the file's fingerprint
\* and mtime, for a file that has no record while the other file has one.
C27_Witness ==
    \E r \in Runs, p, q \in Paths :
        /\ ~run[r].force_recheck /\ task[r][p].pc = "decided"
        /\ task[r][p].action = "RUN_FFMPEG" /\ ~task[r][p].tracked
        /\ disk[p].exists /\ InNone(db, p) /\ ~InNone(db, q)
        /\ task[r][p].current_hash = calculate_file_hash(disk[p].content)
        /\ task[r][p].current_mtime = disk[p].mtime


\* C28: determine_action only reads the store: no step of a work unit
\* from its call of determine_action to the return (the stat, the lock,
\* the lookup with the fingerprint and its decision or exception) changes
\* a row of passed_files or failed_files, or opens a write transaction.
C28_DetermineActionIsPure ==
    [][\A r \in Runs, p \in Paths :
          (task[r][p].pc \in {"submitted", "stat_done", "locked"}
               /\ task'[r][p] # task[r][p])
            => db' = db /\ conn' = conn]_vars

\* determine_action has returned UPDATE_MTIME for a tracked file and
\* USE_CACHED for another, and the store holds both records as they were:
\* the mtime of the first is still the old one.
C28_Witness ==
    \E r \in Runs, p, q \in Paths :
        /\ ~run[r].force_recheck
        /\ task[r][p].pc = "returned" /\ task[r][p].action = "UPDATE_MTIME"
        /\ Len(Lookup(db, p)) = 1
        /\ Lookup(db, p)[1].mtime # task[r][p].current_mtime
        /\ task[r][q].pc = "returned" /\ task[r][q].action = "USE_CACHED"
        /\ Len(Lookup(db, q)) = 1

\* C29: in a parallel run every collected result of five values counts, a
\* USE_CACHED one too; when the count reaches a multiple of the flush period the
\* coordinator goes to a flush transaction before it takes another
\* result, and at no other count; and when a periodic flush has
\* committed, the store is what its statements made and the four lists
\* of pending results are empty.
C29_PeriodicFlushEmptiesBuffers ==
    [][\A r \in Runs :
          ~run[r].verbose
            => /\ (\E p \in Paths :
                       /\ task[r][p].pc = "returned" /\ task'[r][p].pc = "collected"
                       /\ task[r][p].arity = ResultArity)
                    => /\ run'[r].processed_count = run[r].processed_count + 1
                       /\ (run'[r].job = "periodic")
                            = (run'[r].processed_count % FlushEvery = 0)
                       /\ run'[r].job = "periodic" => run'[r].pc = "acquire"
               /\ (run[r].job = "periodic" /\ run[r].pc = "commit"
                       /\ run'[r].pc # "commit")
                    => /\ db' = conn[r].store
                       /\ run'[r].mtime_updates_passed = {}
                       /\ run'[r].mtime_updates_failed = {}
                       /\ run'[r].db_updates_passed = {}
                       /\ run'[r].db_updates_failed = {}
                       /\ run'[r].job # "final"]_vars

\* A parallel run has counted a USE_CACHED and an UPDATE_MTIME result, has
\* committed the periodic flush at the second and is on its way to the
\* sweep with nothing pending.
C29_Witness ==
    \E r \in Runs, p, q \in Paths :
        /\ ~run[r].verbose /\ run[r].processed_count = FlushEvery
        /\ run[r].pc = "acquire" /\ run[r].job = "cleanup"
        /\ task[r][p].pc = "collected" /\ task[r][p].action = "USE_CACHED"
        /\ task[r][q].pc = "collected" /\ task[r][q].action = "UPDATE_MTIME"
        /\ ~Pending(run[r])


\* C30: every invocation of check_integrity makes the sweep, once, after
\* all verification work and the final flush, as one transaction under
\* the lock: an invocation that has ended has gone through the commit of
\* cleanup_database (the only way to "done" for a run that found files);
\* the sweep starts when every result is collected and no commit or flush
\* is left; and its statements and its commit run with the lock held.
\* Stated for the invocations that no store error ended.
C30_SweepOncePerInvocation ==
    \A r \in Runs :
        /\ (Ended(r) /\ run[r].err # "StoreError")
             => run[r].pc = "done" /\ run[r].audio_files # {}
        /\ (run[r].job = "cleanup" /\ ~Ended(r))
             => /\ AllCollected(run[r], task[r])
                /\ run[r].pc \in {"acquire", "tx", "commit", "fail"}
                /\ run[r].pc \in {"tx", "commit", "fail"} => MainProc(r) \in lock


\* The invocation started last: datetime.now() in it is clock.
Latest(r) == \A q \in Runs \ {r} : run[q].pc = "idle" \/ q \in run[r].after

\* C31: after a run that confirmed a file's cached result (USE_CACHED or
\* UPDATE_MTIME), the record's last_checked is the time of that run, not
\* the time of the earlier verification.  Stated for the runs under which
\* no file changed and which no store error ended.
C31_ConfirmationStampsLastChecked ==
    \A r \in Runs :
        (Ended(r) /\ Latest(r) /\ run[r].err # "StoreError" /\ run[r].changed = {})
          => \A p \in run[r].audio_files :
                (task[r][p].pc = "collected"
                     /\ task[r][p].action \in {"USE_CACHED", "UPDATE_MTIME"})
                  => /\ Len(Lookup(db, p)) = 1
                     /\ Lookup(db, p)[1].last_checked = clock


\* C32: lock acquisition is bounded: a process that waits in acquire_lock
\* leaves the wait, with the lock or with the error that gives up, also
\* while another process keeps the lock: a main process does not stay
\* before its transaction for ever, nor a work unit before its lookup.
C32_LockWaitBounded ==
    /\ \A r \in Runs : (run[r].pc = "acquire") ~> (run[r].pc # "acquire")
    /\ \A r \in Runs, p \in Paths :
          (task[r][p].pc = "stat_done") ~> (task[r][p].pc # "stat_done")


\* C33: a parallel run ends, with every file's result collected, and one
\* crashed worker does not keep the pool from delivering the other
\* results nor the run from its final flush and sweep: no run is ended by
\* the pool's BrokenProcessPool, the result of a work unit that has
\* returned is collected, and a run in its loop gets to cleanup_database.
C33_CrashedWorkerDoesNotStopRun ==
    /\ [](\A r \in Runs : run[r].err # "BrokenProcessPool")
    /\ \A r \in Runs, p \in Paths :
          (~run[r].verbose /\ task[r][p].pc = "returned")
              ~> (task[r][p].pc = "collected")
    /\ \A r \in Runs :
          (~run[r].verbose /\ run[r].pc = "loop") ~> (run[r].job = "cleanup")


\* C34: the verifier runs the codec probe on every call, whether ffmpeg
\* passed, failed, timed out or raised, and returns "unknown" only when
\* the probe itself failed: whenever process_file returns a verifier
\* result, every call of check_single_file that gives that outcome and
\* that codec has run the probe, and "unknown" comes from a failed probe.
C34_CodecProbedOnEveryCall ==
    [][\A r \in Runs, p \in Paths :
          (task[r][p].pc = "decided" /\ task'[r][p].pc = "returned")
            => \A res \in check_single_file(disk[p]) :
                  (res.status = task'[r][p].status /\ res.codec = task'[r][p].codec)
                    => /\ res.probe # "none"
                       /\ res.codec = "unknown" => res.probe = "failed"]_vars


RECURSIVE VerboseCommits(_, _, _, _)
\* The store after verbose mode's commits (lines 68-98) for the results
\* that the work units of run r returned for the paths ps.
VerboseCommits(store, r, ps, now) ==
    IF ps = {} THEN store
    ELSE LET p == CHOOSE x \in ps : TRUE
             t == task[r][p]
             tr == IF t.action = "UPDATE_MTIME" THEN VerboseMtimeTrace(store, p, t)
                   ELSE IF t.action = "RUN_FFMPEG" THEN VerboseRunTrace(store, p, t, now)
                   ELSE Trace(<<store>>, "none")
         IN  VerboseCommits(tr.steps[Len(tr.steps)], r, ps \ {p}, now)

\* C35: the two modes are equivalent on the store: when a parallel run
\* has collected every result and is at its flush, the flush commits, and
\* what it commits is the store that verbose mode's per-file commits make
\* of the same store with the same results (the same time stamps too).
C35_ModesEquivalentOnStore ==
    \A r \in Runs :
        (~run[r].verbose /\ run[r].pc = "tx" /\ run[r].job \in {"periodic", "final"}
             /\ AllCollected(run[r], task[r]))
          => LET tr == FlushTrace(db, run[r], clock)
             IN  /\ tr.err = "none"
                 /\ tr.steps[Len(tr.steps)]
                      = VerboseCommits(db, r, run[r].audio_files, clock)


\* Every row of passed_files says PASSED and every row of failed_files
\* says FAILED.
StatusNamesTable(store) ==
    /\ \A p \in DOMAIN store.passed_files : store.passed_files[p].status = "PASSED"
    /\ \A p \in DOMAIN store.failed_files : store.failed_files[p].status = "FAILED"

\* C36: in every store state a row's status column names its table, so
\* the outcome determine_action returns with USE_CACHED or UPDATE_MTIME
\* names the table the record was found in.
C36_StatusColumnNamesTable ==
    [][/\ StatusNamesTable(db) /\ StatusNamesTable(db')
       /\ \A r \in Runs, p \in Paths :
             (DecisionStep(r, p)
                  /\ task'[r][p].action \in {"USE_CACHED", "UPDATE_MTIME"})
               => /\ task'[r][p].stored_status
                       = (IF InPassed(db, p) THEN "PASSED" ELSE "FAILED")
                  /\ InPassed(db, p) \/ InFailed(db, p)]_vars

\* determine_action has answered FAILED from a record of failed_files
\* whose codec columns dbcheck has rewritten since it was inserted.
C36_Witness ==
    \E r \in Runs, p \in Paths :
        /\ task[r][p].pc = "returned" /\ task[r][p].action = "USE_CACHED"
        /\ task[r][p].stored_status = "FAILED" /\ InFailed(db, p)
        /\ db.failed_files[p].codec_type # "NULL"

\* The outcomes the verifier can return for bytes whose fingerprint is h.
OutcomesFor(h) ==
    {res.status : res \in UNION {check_single_file([exists |-> TRUE, mtime |-> 1,
                                                      content |-> c]) :
                                    c \in {x \in Contents : calculate_file_hash(x) = h}}}

\* C37: in every store state, under any interleaving of runs with file
\* modifications, a record's outcome is a verifier result for the bytes
\* whose fingerprint is the record's file_hash.
C37_OutcomeMatchesFingerprint ==
    \A p \in Paths :
        /\ InPassed(db, p)
             => db.passed_files[p].status \in OutcomesFor(db.passed_files[p].file_hash)
        /\ InFailed(db, p)
             => db.failed_files[p].status \in OutcomesFor(db.failed_files[p].file_hash)


\* after is before with, at most, another mtime in the row of p.
OnlyMtimeOf(after, before, p) ==
    /\ DOMAIN after = DOMAIN before
    /\ \A q \in DOMAIN after :
          IF q = p THEN [after[q] EXCEPT !.mtime = before[q].mtime] = before[q]
          ELSE after[q] = before[q]

\* C38: the commit of an UPDATE_MTIME result creates no record and moves
\* none: its statement leaves every table with the same paths and changes
\* at most the mtime of the path's row in the table of the decided
\* outcome; when that table has no row for the path any more (another
\* process moved it, or the sweep deleted it), it changes nothing; and the
\* commit puts exactly that in the store.  The mtime updates of a flush
\* leave every table with the same paths too.
C38_RefreshNeverCreatesOrMoves ==
    [][\A r \in Runs :
          /\ (run[r].job = "verbose_mtime" /\ run[r].pc = "tx" /\ run'[r].pc = "commit")
               => LET p == run[r].item
                      new == conn'[r].store
                      decided == IF task[r][p].status = "PASSED"
                                 THEN "passed_files" ELSE "failed_files"
                  IN  /\ OnlyMtimeOf(new.passed_files, db.passed_files, p)
                      /\ OnlyMtimeOf(new.failed_files, db.failed_files, p)
                      /\ ~Has(db[decided], p) => new = db
                      /\ decided = "passed_files" => new.failed_files = db.failed_files
                      /\ decided = "failed_files" => new.passed_files = db.passed_files
          /\ (run[r].job = "verbose_mtime" /\ run[r].pc = "commit"
                  /\ run'[r].pc # "commit")
               => db' = conn[r].store
          /\ (run[r].job \in {"periodic", "final"} /\ run[r].pc = "tx")
               => LET flushed == FlushTrace(db, run[r], clock).steps[3]
                  IN  /\ DOMAIN flushed.passed_files = DOMAIN db.passed_files
                      /\ DOMAIN flushed.failed_files = DOMAIN db.failed_files]_vars

\* A verbose run decided UPDATE_MTIME from the PASSED record of a path;
\* another invocation has since moved the record to failed_files, or the
\* sweep has deleted it; the run's UPDATE has run and changed nothing.
C38_Witness ==
    \E r \in Runs, p \in Paths :
        /\ run[r].job = "verbose_mtime" /\ run[r].pc = "commit" /\ run[r].item = p
        /\ task[r][p].status = "PASSED" /\ ~InPassed(db, p)
        /\ conn[r].store = db


\* The processes of run r that are blocked in, or about to call,
\* acquire_lock.
AtAcquire(r) ==
    (IF run[r].pc = "acquire" THEN {MainProc(r)} ELSE {})
        \cup {Proc(r, p) : p \in {q \in Paths : task[r][q].pc = "stat_done"}}

\* The process proc of run r is inside a section that ends with
\* release_lock: determine_action's try block, or a commit, a flush or the
\* sweep of the main process.
InLockedSection(r, proc) ==
    \/ proc = MainProc(r) /\ InTxOf(run[r])
    \/ \E p \in Paths : proc = Proc(r, p) /\ task[r][p].pc = "locked"

\* C39: a process that calls acquire_lock does not hold the lock; whoever
\* holds it is inside a section that ends with release_lock and can take
\* its next step, so the processes of one run never wait for the lock
\* for ever on their own.
C39_NoNestedAcquisition ==
    \A r \in Runs :
        /\ AtAcquire(r) \cap lock = {}
        /\ \A proc \in lock : proc[1] = r => InLockedSection(r, proc)
        /\ (AtAcquire(r) # {} /\ lock # {})
             => \E h \in lock :
                   /\ h[1] = r
                   /\ \/ ENABLED (TxBody(r) \/ TxCommit(r) \/ TxFail(r))
                      \/ \E p \in Paths : ENABLED Decide(r, p)

\* A worker of a parallel run is at acquire_lock while another worker of
\* the same run holds the lock inside determine_action.
C39_Witness ==
    \E r \in Runs, p \in Paths, q \in Paths :
        /\ ~run[r].verbose /\ p # q
        /\ task[r][p].pc = "stat_done"
        /\ task[r][q].pc = "locked" /\ <<r, q>> \in lock


=============================================================================
